---- MODULE Spec2Model ----
(***************************************************************************)
(* The POST /hackrx/run handlers of the document question-answering        *)
(* service, in its four batch variants:                                    *)
(*   "index"     src/index.js          token check, sequential questions   *)
(*   "part_000"  src/unnamed/part_000  no token, fixed temp path, keyed    *)
(*                                      answers object                      *)
(*   "part_002"  src/unnamed/part_002  token, dedup cache, PDF only        *)
(*   "part_003"  src/unnamed/part_003  token, dedup cache, PDF/DOCX        *)
(* and of its chat variant                                                 *)
(*   "part_001"  src/unnamed/part_001  one question, shared History        *)
(* One action is one run of the event loop: the code between two awaits.   *)
(***************************************************************************)
EXTENDS Integers, Sequences, FiniteSets, TLC

\* ------------------------------------------------------------------------
\* Bounds of the model
\* ------------------------------------------------------------------------
\* requests the process receives
NReq == 2
\* questions those requests carry in total
MaxQuestions == 2

Reqs == 1..NReq

\* ------------------------------------------------------------------------
\* Program constants
\* ------------------------------------------------------------------------
DefaultRetries == 2
TEAM_TOKEN == "tok"
Fallback == <<"An error occurred while processing this question.">>
NotFound == <<"I could not find the answer in the provided document.">>

Variants == {"index", "part_000", "part_002", "part_003"}

\* ------------------------------------------------------------------------
\* Request inputs
\* ------------------------------------------------------------------------
NoHeader == [present |-> FALSE, value |-> <<>>]
Header(v) == [present |-> TRUE, value |-> v]
AuthHeaders ==
  {NoHeader, Header(<<>>), Header(<<"Bearer", "bad">>), Header(<<"Bearer", TEAM_TOKEN>>)}

NoURL == [name |-> "", ext |-> ""]
URLs ==
  {[name |-> "a", ext |-> ".pdf"], [name |-> "b", ext |-> ".DOCX"], [name |-> "c", ext |-> ".txt"]}
NoDocuments == [present |-> FALSE, url |-> NoURL]
Documents(u) == [present |-> TRUE, url |-> u]
DocumentsValues == {NoDocuments} \cup {Documents(u) : u \in URLs}

\* Question arrays up to renaming of their texts: k distinct questions, or the
\* same question k times.
DistinctQuestions(k) == [i \in 1..k |-> <<"q", i>>]
SameQuestion(k) == [i \in 1..k |-> <<"q", 1>>]
ArraysUpTo(n) == UNION {{DistinctQuestions(k), SameQuestion(k)} : k \in 0..n}
NoQuestions == [kind |-> "undefined", items |-> <<>>]
QuestionsValues ==
  {NoQuestions, [kind |-> "string", items |-> <<"q">>], [kind |-> "object", items |-> <<>>]}
    \cup {[kind |-> "array", items |-> a] : a \in ArraysUpTo(MaxQuestions)}

NoBody == [documents |-> NoDocuments, questions |-> NoQuestions]
Bodies == [documents : DocumentsValues, questions : QuestionsValues]

\* The texts the LLM may return: sequences of characters.
LlmTexts == {<<" ", "a", " ">>, <<" ">>}

\* ------------------------------------------------------------------------
\* Pure helpers
\* ------------------------------------------------------------------------
Min(a, b) == IF a < b THEN a ELSE b

\* `Bearer ${TEAM_TOKEN}`
BearerOf(token) == <<"Bearer", token>>

\* Mutant: any non-empty header passes.
AuthorizedAnyHeader(h) == h.present /\ h.value # <<>>

\* !auth || auth !== `Bearer ${TEAM_TOKEN}` is false
Authorized(h) == h.present /\ h.value # <<>> /\ h.value = BearerOf(TEAM_TOKEN)

ChecksToken(v) == v \in {"index", "part_002", "part_003"}
Dedups(v) == v \in {"part_002", "part_003"}
\* Promise.all over questions.map (true) or a for...of loop with awaits (false)
Concurrent(v) == v \in {"part_002", "part_003"}

IsArray(q) == q.kind = "array"
\* JavaScript truthiness of the questions value
TruthyQuestions(q) == q.kind \in {"string", "object", "array"}
\* for...of accepts arrays and strings and throws a TypeError on a plain object
Iterable(q) == q.kind \in {"string", "array"}

\* !documents || !Array.isArray(questions)   (part_000: !documents || !questions)
ValidBody(v, b) ==
  /\ b.documents.present
  /\ IF v = "part_000" THEN TruthyQuestions(b.questions) ELSE IsArray(b.questions)

\* Mutant: the digest of the empty input, whatever the URL.
HashURLNoUpdate(u) == <<"sha256", "", "">>

\* crypto.createHash('sha256').update(url).digest('hex'): a digest that is a
\* function of the URL string alone and differs for different strings
HashURL(u) == <<"sha256", u.name, u.ext>>

ToLowerCase(e) ==
  CASE e = ".PDF" -> ".pdf"
    [] e = ".DOCX" -> ".docx"
    [] OTHER -> e

\* path.extname(new URL(url).pathname).toLowerCase()
ExtName(u) == ToLowerCase(u.ext)

\* Mutant: no allow-list.
SupportedAny(e) == TRUE

\* ['.pdf', '.docx'].includes(ext)
Supported(e) == e \in {".pdf", ".docx"}

\* `./temp-${uuidv4()}${ext}`: a fresh name per call; part_000 uses the fixed
\* path.join(__dirname, 'temp.pdf')
LocalPath(v, r) == IF v = "part_000" THEN <<"temp.pdf">> ELSE <<"temp", r>>

RECURSIVE TrimStart(_)
TrimStart(s) == IF s # <<>> /\ Head(s) = " " THEN TrimStart(Tail(s)) ELSE s

RECURSIVE TrimEnd(_)
TrimEnd(s) ==
  IF s # <<>> /\ s[Len(s)] = " " THEN TrimEnd(SubSeq(s, 1, Len(s) - 1)) ELSE s

\* String.prototype.trim
Trim(s) == TrimEnd(TrimStart(s))

\* geminiResponse.text || "I could not find the answer in the provided document."
OrNotFound(s) == IF s = <<>> THEN NotFound ELSE s

\* Mutant: the handler without the processedDocs.has(hash) test.
HandleOutcomeNoCache(v, h, b, cache) ==
  IF ChecksToken(v) /\ ~Authorized(h) THEN "401"
  ELSE IF ~ValidBody(v, b) THEN "400"
  ELSE IF v = "part_003" /\ ~Supported(ExtName(b.documents.url)) THEN "unsupported"
  ELSE "download"

\* The first branch of the handler that applies, up to its first await.
HandleOutcome(v, h, b, cache) ==
  IF ChecksToken(v) /\ ~Authorized(h) THEN "401"
  ELSE IF ~ValidBody(v, b) THEN "400"
  ELSE IF Dedups(v) /\ HashURL(b.documents.url) \in cache THEN "cached"
  ELSE IF v = "part_003" /\ ~Supported(ExtName(b.documents.url)) THEN "unsupported"
  ELSE "download"

\* ------------------------------------------------------------------------
\* Question tasks
\* ------------------------------------------------------------------------
NewTask(q, p) ==
  [q |-> q,             \* the question text
   pc |-> p,            \* "pending" | "embed" | "query" | "backoff" | "llm" | "done"
   attempt |-> 1,       \* queryWithRetry's loop variable
   calls |-> 0,         \* pineconeIndex.query calls issued for this question
   qfails |-> 0,        \* how many of them rejected
   thrown |-> 0,        \* the attempt whose error queryWithRetry rethrew (0: none)
   waits |-> 0,         \* 500 ms timers queryWithRetry started
   fail |-> "none",     \* the step of this question that failed
   out |-> <<>>,        \* the text the LLM returned
   val |-> <<>>,        \* the value answerQuestion returned
   rank |-> 0]          \* position in completion order (0: not settled)

InitTasks(v, items) ==
  [i \in 1..Len(items) |-> NewTask(items[i], IF Concurrent(v) \/ i = 1 THEN "embed" ELSE "pending")]

EmbedsIssued(v, items) == IF Concurrent(v) THEN Len(items) ELSE Min(1, Len(items))

AllSettled(ts) == \A i \in 1..Len(ts) : ts[i].pc = "done"

Settled(ts) == {i \in 1..Len(ts) : ts[i].pc = "done"}

\* Mutant: collecting each value when its promise settles, in completion order.
PromiseAllByCompletion(ts) ==
  [k \in 1..Len(ts) |-> ts[CHOOSE i \in 1..Len(ts) : ts[i].rank = k].val]

\* Promise.all resolves with the values in the order of the input promises.
PromiseAll(ts) == [i \in 1..Len(ts) |-> ts[i].val]

\* Mutant: the rethrow test is off by one.
RetryDecisionOffByOne(attempt, retries) == IF attempt = retries + 1 THEN "throw" ELSE "backoff"

\* queryWithRetry's catch block: rethrow on the last attempt, else back off
RetryDecision(attempt, retries) == IF attempt = retries THEN "throw" ELSE "backoff"
\* Mutant: the loop stops one attempt early.
LoopContinuesStrict(attempt, retries) == attempt < retries

\* for (...; attempt <= retries; attempt++)
LoopContinues(attempt, retries) == attempt <= retries

NoEffects == [dl |-> 0, tmp |-> 0, fromDocs |-> 0, embq |-> 0, idxq |-> 0, llm |-> 0, adds |-> 0]

\* ------------------------------------------------------------------------
\* State
\* ------------------------------------------------------------------------
VARIABLES
  variant,        \* which server file is running
  processedDocs,  \* the dedup cache: Set of hashes
  files,          \* temp files on disk
  indexed,        \* hash -> number of completed fromDocuments passes
  pc,             \* request -> position of its handler
  header,         \* request -> Authorization header
  body,           \* request -> req.body
  status,         \* request -> HTTP status sent (0: none yet)
  answers,        \* request -> answers payload sent
  ingest,         \* request -> "none" | "running" | "done" | "skipped" | "failed"
  failStep,       \* request -> the ingestion step that failed
  effects,        \* request -> external calls issued on its behalf
  tasks,          \* request -> per-question state
  History,        \* part_001: the conversation turns shared by all requests
  chat,           \* part_001: request -> state of its handler
  overlapped      \* part_001: a request arrived while another was in flight

batchVars == <<variant, processedDocs, files, indexed, pc, header, body, status, answers,
               ingest, failStep, effects, tasks>>
chatVars == <<History, chat, overlapped>>
vars == <<batchVars, chatVars>>

Hashes == {HashURL(u) : u \in URLs}

\* The state of a chat request before it arrives.
NewChat ==
  [pc |-> "new",        \* "new" | "rewrite" | "embed" | "query" | "llm" | "done"
   question |-> <<>>,   \* req.body.question
   standalone |-> <<>>, \* the text transformQuery returned
   before |-> <<>>,     \* History as it was when transformQuery was called
   status |-> 0,        \* HTTP status sent (0: none yet)
   answer |-> <<>>,     \* the answer sent
   fail |-> "none",     \* the external call that failed
   embq |-> 0,          \* embeddings.embedQuery calls issued
   idxq |-> 0,          \* pineconeIndex.query calls issued
   llm |-> 0]           \* answer-synthesis generateContent calls issued

\* The process after start-up, whichever server file runs.
Started ==
  /\ processedDocs = {}
  /\ files = {}
  /\ indexed = [h \in Hashes |-> 0]
  /\ pc = [r \in Reqs |-> "new"]
  /\ header = [r \in Reqs |-> NoHeader]
  /\ body = [r \in Reqs |-> NoBody]
  /\ status = [r \in Reqs |-> 0]
  /\ answers = [r \in Reqs |-> <<>>]
  /\ ingest = [r \in Reqs |-> "none"]
  /\ failStep = [r \in Reqs |-> "none"]
  /\ effects = [r \in Reqs |-> NoEffects]
  /\ tasks = [r \in Reqs |-> <<>>]
  /\ History = <<>>
  /\ chat = [r \in Reqs |-> NewChat]
  /\ overlapped = FALSE

Init == variant \in Variants /\ Started

\* res.status(code).json(...) and the handler returns
Reply(r, code, payload) ==
  /\ pc' = [pc EXCEPT ![r] = "done"]
  /\ status' = [status EXCEPT ![r] = code]
  /\ answers' = [answers EXCEPT ![r] = payload]

\* Ingestion throws at `step`; the handler's catch answers 500.
IngestThrows(r, step) ==
  /\ Reply(r, 500, <<>>)
  /\ ingest' = [ingest EXCEPT ![r] = "failed"]
  /\ failStep' = [failStep EXCEPT ![r] = step]

\* The question phase starts: questions.map(answerQuestion) or the for...of loop.
BeginAnswers(r, q, fx) ==
  IF ~Iterable(q)
  THEN /\ Reply(r, 500, <<>>)
       /\ effects' = [effects EXCEPT ![r] = fx]
       /\ UNCHANGED tasks
  ELSE IF q.items = <<>>
  THEN /\ Reply(r, 200, <<>>)
       /\ effects' = [effects EXCEPT ![r] = fx]
       /\ UNCHANGED tasks
  ELSE /\ pc' = [pc EXCEPT ![r] = "answering"]
       /\ tasks' = [tasks EXCEPT ![r] = InitTasks(variant, q.items)]
       /\ effects' = [effects EXCEPT ![r] = [fx EXCEPT !.embq = EmbedsIssued(variant, q.items)]]
       /\ UNCHANGED <<status, answers>>

RECURSIVE QuestionsOf(_, _)
QuestionsOf(bd, n) == IF n = 0 THEN 0 ELSE Len(bd[n].questions.items) + QuestionsOf(bd, n - 1)

\* A request arrives and its handler runs up to the first await.  Requests are
\* numbered in arrival order and carry at most MaxQuestions questions in all.
Handle(r) ==
  /\ pc[r] = "new"
  /\ \A s \in Reqs : s < r => pc[s] # "new"
  /\ \E h \in AuthHeaders, b \in Bodies :
       LET o == HandleOutcome(variant, h, b, processedDocs) IN
       /\ Len(b.questions.items) + QuestionsOf(body, NReq) <= MaxQuestions
       /\ header' = [header EXCEPT ![r] = IF ChecksToken(variant) THEN h ELSE NoHeader]
       /\ body' = [body EXCEPT ![r] = IF o = "401" THEN NoBody ELSE b]
       /\ CASE o = "401" ->
                 /\ Reply(r, 401, <<>>)
                 /\ UNCHANGED <<ingest, failStep, effects, tasks>>
            [] o = "400" ->
                 /\ Reply(r, 400, <<>>)
                 /\ UNCHANGED <<ingest, failStep, effects, tasks>>
            [] o = "cached" ->
                 /\ ingest' = [ingest EXCEPT ![r] = "skipped"]
                 /\ BeginAnswers(r, b.questions, effects[r])
                 /\ UNCHANGED failStep
            [] o = "unsupported" ->
                 /\ IngestThrows(r, "format")
                 /\ UNCHANGED <<effects, tasks>>
            [] o = "download" ->
                 /\ pc' = [pc EXCEPT ![r] = "get"]
                 /\ ingest' = [ingest EXCEPT ![r] = "running"]
                 /\ effects' = [effects EXCEPT ![r].dl = 1]
                 /\ UNCHANGED <<status, answers, failStep, tasks>>
  /\ UNCHANGED <<chatVars, variant, processedDocs, files, indexed>>

\* The download promise never settles: no listener rejects it.
IngestHangs(r) ==
  /\ pc' = [pc EXCEPT ![r] = "hung"]
  /\ ingest' = [ingest EXCEPT ![r] = "failed"]
  /\ failStep' = [failStep EXCEPT ![r] = "stream"]
  /\ UNCHANGED <<status, answers>>

\* axios.get / fetch resolves; fs.createWriteStream(localPath)
GetOK(r) ==
  /\ pc[r] = "get"
  /\ pc' = [pc EXCEPT ![r] = "pipe"]
  /\ files' = files \cup {LocalPath(variant, r)}
  /\ effects' = [effects EXCEPT ![r].tmp = 1]
  /\ UNCHANGED <<chatVars, variant, processedDocs, indexed, header, body, status, answers,
                 ingest, failStep, tasks>>

\* axios.get / fetch rejects
GetFail(r) ==
  /\ pc[r] = "get"
  /\ IngestThrows(r, "download")
  /\ UNCHANGED <<chatVars, variant, processedDocs, files, indexed, header, body, effects,
                 tasks>>

\* writer.on('finish', resolve)
PipeFinish(r) ==
  /\ pc[r] = "pipe"
  /\ pc' = [pc EXCEPT ![r] = "load"]
  /\ UNCHANGED <<chatVars, variant, processedDocs, files, indexed, header, body, status, answers,
                 ingest, failStep, effects, tasks>>

\* Which stream errors reject the download promise: the axios variants listen
\* on the writer only, part_000 on the response body only.
RejectsOn(v, stream) == IF v = "part_000" THEN stream = "source" ELSE stream = "writer"

\* The write stream emits 'error'.
PipeWriterError(r) ==
  /\ pc[r] = "pipe"
  /\ IF RejectsOn(variant, "writer") THEN IngestThrows(r, "stream") ELSE IngestHangs(r)
  /\ UNCHANGED <<chatVars, variant, processedDocs, files, indexed, header, body, effects,
                 tasks>>

\* The response body stream emits 'error' mid-transfer.
PipeSourceError(r) ==
  /\ pc[r] = "pipe"
  /\ IF RejectsOn(variant, "source") THEN IngestThrows(r, "stream") ELSE IngestHangs(r)
  /\ UNCHANGED <<chatVars, variant, processedDocs, files, indexed, header, body, effects,
                 tasks>>

\* loader.load() resolves
LoadOK(r) ==
  /\ pc[r] = "load"
  /\ pc' = [pc EXCEPT ![r] = "split"]
  /\ UNCHANGED <<chatVars, variant, processedDocs, files, indexed, header, body, status, answers,
                 ingest, failStep, effects, tasks>>

\* loader.load() rejects
LoadFail(r) ==
  /\ pc[r] = "load"
  /\ IngestThrows(r, "parse")
  /\ UNCHANGED <<chatVars, variant, processedDocs, files, indexed, header, body, effects,
                 tasks>>

\* splitter.splitDocuments resolves; PineconeStore.fromDocuments is called
SplitOK(r) ==
  /\ pc[r] = "split"
  /\ pc' = [pc EXCEPT ![r] = "upsert"]
  /\ effects' = [effects EXCEPT ![r].fromDocs = 1]
  /\ UNCHANGED <<chatVars, variant, processedDocs, files, indexed, header, body, status, answers,
                 ingest, failStep, tasks>>

\* splitter.splitDocuments rejects
SplitFail(r) ==
  /\ pc[r] = "split"
  /\ IngestThrows(r, "chunk")
  /\ UNCHANGED <<chatVars, variant, processedDocs, files, indexed, header, body, effects,
                 tasks>>

\* fs.unlinkSync(localPath); part_000 never removes its file
Unlink(v, fs, path) == IF v = "part_000" THEN fs ELSE fs \ {path}

\* Mutant: the cache is replaced by a set holding only the new hash.
CacheAfterIngestReplace(v, cache, h) == IF Dedups(v) THEN {h} ELSE cache

\* processedDocs.add(hash) after the await of processDocument / processPDF
CacheAfterIngest(v, cache, h) == IF Dedups(v) THEN cache \cup {h} ELSE cache

\* PineconeStore.fromDocuments resolves: cleanup, cache update, questions start
UpsertOK(r) ==
  /\ pc[r] = "upsert"
  /\ LET h == HashURL(body[r].documents.url) IN
       /\ indexed' = [indexed EXCEPT ![h] = @ + 1]
       /\ files' = Unlink(variant, files, LocalPath(variant, r))
       /\ processedDocs' = CacheAfterIngest(variant, processedDocs, h)
       /\ ingest' = [ingest EXCEPT ![r] = "done"]
       /\ BeginAnswers(r, body[r].questions,
                       [effects[r] EXCEPT !.adds = IF Dedups(variant) THEN 1 ELSE 0])
  /\ UNCHANGED <<chatVars, variant, header, body, failStep>>

\* an embedding or upsert call of PineconeStore.fromDocuments rejects
UpsertFail(r) ==
  /\ pc[r] = "upsert"
  /\ IngestThrows(r, "upsert")
  /\ UNCHANGED <<chatVars, variant, processedDocs, files, indexed, header, body, effects,
                 tasks>>

Ingestion(r) ==
  \/ GetOK(r) \/ GetFail(r)
  \/ PipeFinish(r) \/ PipeWriterError(r) \/ PipeSourceError(r)
  \/ LoadOK(r) \/ LoadFail(r)
  \/ SplitOK(r) \/ SplitFail(r)
  \/ UpsertOK(r) \/ UpsertFail(r)

\* ------------------------------------------------------------------------
\* The question phase
\* ------------------------------------------------------------------------
Retries == DefaultRetries

\* responseData[question] = text, for the questions in order: one key per
\* distinct question, in first-insertion order, holding the last value set
RECURSIVE KeyedObject(_, _)
KeyedObject(ts, n) ==
  IF n = 0 THEN <<>>
  ELSE LET rest == KeyedObject(ts, n - 1)
           at == {k \in 1..Len(rest) : rest[k].key = ts[n].q}
       IN IF at = {}
          THEN Append(rest, [key |-> ts[n].q, value |-> ts[n].val])
          ELSE [k \in 1..Len(rest) |-> IF k \in at THEN [rest[k] EXCEPT !.value = ts[n].val]
                                                    ELSE rest[k]]

\* The answers payload of res.json once every question has its value.
Payload(v, ts) ==
  IF v = "part_000" THEN KeyedObject(ts, Len(ts)) ELSE PromiseAll(ts)

\* What one question contributes to the payload from the LLM text.
AnswerValue(v, text) ==
  CASE v = "index" -> OrNotFound(text)
    [] v = "part_000" -> text
    [] OTHER -> Trim(text)

\* Question i of request r gets its value.  Concurrent variants: its promise
\* fulfils and Promise.all resolves after the last one.  Sequential variants:
\* the loop moves to the next question and issues its embedQuery.
Settle(r, i, t) ==
  LET ts == [tasks[r] EXCEPT ![i] = [t EXCEPT !.pc = "done",
                                               !.rank = Cardinality(Settled(tasks[r])) + 1]]
      last == IF Concurrent(variant) THEN AllSettled(ts) ELSE i = Len(ts)
      nxt == IF ~last /\ ~Concurrent(variant)
             THEN [ts EXCEPT ![i + 1].pc = "embed"] ELSE ts
  IN /\ tasks' = [tasks EXCEPT ![r] = nxt]
     /\ effects' = [effects EXCEPT ![r].embq =
                      IF ~last /\ ~Concurrent(variant) THEN @ + 1 ELSE @]
     /\ IF last THEN Reply(r, 200, Payload(variant, ts))
                ELSE UNCHANGED <<pc, status, answers>>

\* Mutant: answerQuestion without its try/catch.
QuestionRethrows(r, i, t, step) ==
  /\ Reply(r, 500, <<>>)
  /\ tasks' = [tasks EXCEPT ![r][i] = [t EXCEPT !.fail = step, !.pc = "done"]]
  /\ UNCHANGED effects

\* answerQuestion's catch returns the fixed sentence; without a try/catch
\* around the question (index, part_000) the handler's catch answers 500.
QuestionFails(r, i, t, step) ==
  IF Concurrent(variant)
  THEN Settle(r, i, [t EXCEPT !.fail = step, !.val = Fallback])
  ELSE /\ Reply(r, 500, <<>>)
       /\ tasks' = [tasks EXCEPT ![r][i] = [t EXCEPT !.fail = step, !.pc = "done"]]
       /\ UNCHANGED effects

\* Issue pineconeIndex.query for question i.
IssueQuery(r, i, t) ==
  /\ tasks' = [tasks EXCEPT ![r][i] = [t EXCEPT !.pc = "query", !.calls = @ + 1]]
  /\ effects' = [effects EXCEPT ![r].idxq = @ + 1]
  /\ UNCHANGED <<pc, status, answers>>

\* embeddings.embedQuery(question) resolves
EmbedOK(r, i) ==
  /\ pc[r] = "answering" /\ i \in DOMAIN tasks[r] /\ tasks[r][i].pc = "embed"
  /\ IssueQuery(r, i, tasks[r][i])
  /\ UNCHANGED <<chatVars, variant, processedDocs, files, indexed, header, body, ingest, failStep>>

\* embeddings.embedQuery(question) rejects
EmbedFail(r, i) ==
  /\ pc[r] = "answering" /\ i \in DOMAIN tasks[r] /\ tasks[r][i].pc = "embed"
  /\ QuestionFails(r, i, tasks[r][i], "embed")
  /\ UNCHANGED <<chatVars, variant, processedDocs, files, indexed, header, body, ingest, failStep>>

\* pineconeIndex.query resolves; model.generateContent(prompt) is called
QueryOK(r, i) ==
  /\ pc[r] = "answering" /\ i \in DOMAIN tasks[r] /\ tasks[r][i].pc = "query"
  /\ tasks' = [tasks EXCEPT ![r][i].pc = "llm"]
  /\ effects' = [effects EXCEPT ![r].llm = @ + 1]
  /\ UNCHANGED <<chatVars, variant, processedDocs, files, indexed, pc, header, body, status, answers,
                 ingest, failStep>>

\* pineconeIndex.query rejects with the error of this attempt
QueryFail(r, i) ==
  /\ pc[r] = "answering" /\ i \in DOMAIN tasks[r] /\ tasks[r][i].pc = "query"
  /\ LET t == tasks[r][i] IN
       IF ~Concurrent(variant) \/ RetryDecision(t.attempt, Retries) = "throw"
       THEN QuestionFails(r, i, [t EXCEPT !.qfails = @ + 1, !.thrown = t.attempt], "retrieval")
       ELSE /\ tasks' = [tasks EXCEPT ![r][i] = [t EXCEPT !.qfails = @ + 1, !.waits = @ + 1,
                                                          !.pc = "backoff"]]
            /\ UNCHANGED <<pc, status, answers, effects>>
  /\ UNCHANGED <<chatVars, variant, processedDocs, files, indexed, header, body, ingest, failStep>>

\* the 500 ms timer fires; attempt++ and the loop condition is tested
Backoff(r, i) ==
  /\ pc[r] = "answering" /\ i \in DOMAIN tasks[r] /\ tasks[r][i].pc = "backoff"
  /\ LET t == [tasks[r][i] EXCEPT !.attempt = @ + 1] IN
       IF LoopContinues(t.attempt, Retries)
       THEN IssueQuery(r, i, t)
       ELSE QuestionFails(r, i, t, "retrieval")  \* results is undefined: TypeError
  /\ UNCHANGED <<chatVars, variant, processedDocs, files, indexed, header, body, ingest, failStep>>

\* the LLM call resolves with `text`
LlmOK(r, i) ==
  /\ pc[r] = "answering" /\ i \in DOMAIN tasks[r] /\ tasks[r][i].pc = "llm"
  /\ \E text \in LlmTexts :
       Settle(r, i, [tasks[r][i] EXCEPT !.out = text, !.val = AnswerValue(variant, text)])
  /\ UNCHANGED <<chatVars, variant, processedDocs, files, indexed, header, body, ingest, failStep>>

\* the LLM call rejects, or reading its text throws
LlmFail(r, i) ==
  /\ pc[r] = "answering" /\ i \in DOMAIN tasks[r] /\ tasks[r][i].pc = "llm"
  /\ QuestionFails(r, i, tasks[r][i], "llm")
  /\ UNCHANGED <<chatVars, variant, processedDocs, files, indexed, header, body, ingest, failStep>>

Question(r, i) ==
  \/ EmbedOK(r, i) \/ EmbedFail(r, i)
  \/ QueryOK(r, i) \/ QueryFail(r, i) \/ Backoff(r, i)
  \/ LlmOK(r, i) \/ LlmFail(r, i)

Next ==
  \E r \in Reqs :
    \/ Handle(r)
    \/ Ingestion(r)
    \/ \E i \in 1..MaxQuestions : Question(r, i)

Spec == Init /\ [][Next]_vars

\* Every external call that is pending eventually resolves or rejects: the
\* step that consumes its outcome is taken.  Arrivals are not forced.
ExternalCallsSettle ==
  \A r \in Reqs :
    /\ WF_vars(Ingestion(r))
    /\ \A i \in 1..MaxQuestions : WF_vars(Question(r, i))

SpecLive == Spec /\ ExternalCallsSettle

\* ------------------------------------------------------------------------
\* The chat variant (part_001)
\* ------------------------------------------------------------------------
\* req.body.question: absent or empty (falsy), or a text
ChatQuestions == {<<>>, <<"q">>}
\* the texts the rewrite call and the answer call may return
RewriteTexts == {<<"s">>, <<"q">>}
AnswerTexts == {<<"a">>, NotFound}

\* A History entry { role, parts: [{ text }] }; `by` and `kind` record which
\* request pushed it and at which statement.
Turn(role, text, r, kind) == [role |-> role, text |-> text, by |-> r, kind |-> kind]

\* Array.prototype.push
Push(h, t) == Append(h, t)

\* Array.prototype.pop: the last element is removed
Pop(h) == IF h = <<>> THEN h ELSE SubSeq(h, 1, Len(h) - 1)

InFlight(c) == c.pc \notin {"new", "done"}

\* generateAnswer throws at `step`; the handler's catch answers 500.
ChatThrows(r, step) ==
  chat' = [chat EXCEPT ![r] = [@ EXCEPT !.pc = "done", !.status = 500, !.fail = step]]

\* A chat request arrives: the handler validates the question, generateAnswer
\* calls transformQuery, which pushes the question and calls the LLM.
ChatHandle(r) ==
  /\ chat[r].pc = "new"
  /\ \A s \in Reqs : s < r => chat[s].pc # "new"
  /\ \E q \in ChatQuestions :
       IF q = <<>>
       THEN /\ chat' = [chat EXCEPT ![r] = [@ EXCEPT !.pc = "done", !.status = 400]]
            /\ UNCHANGED <<History, overlapped>>
       ELSE /\ History' = Push(History, Turn("user", q, r, "speculative"))
            /\ chat' = [chat EXCEPT ![r] = [@ EXCEPT !.pc = "rewrite", !.question = q,
                                                      !.before = History]]
            /\ overlapped' = (overlapped \/ \E s \in Reqs \ {r} : InFlight(chat[s]))
  /\ UNCHANGED batchVars

\* the rewrite call resolves and its text is read: History.pop(), and
\* generateAnswer goes on to embed the standalone question
RewriteOK(r) ==
  /\ chat[r].pc = "rewrite"
  /\ History' = Pop(History)
  /\ \E s \in RewriteTexts :
       chat' = [chat EXCEPT ![r] = [@ EXCEPT !.pc = "embed", !.standalone = s, !.embq = 1]]
  /\ UNCHANGED <<batchVars, overlapped>>

\* the rewrite call resolves, History.pop() runs, and reading the text of the
\* response throws
RewriteTextThrows(r) ==
  /\ chat[r].pc = "rewrite"
  /\ History' = Pop(History)
  /\ ChatThrows(r, "text")
  /\ UNCHANGED <<batchVars, overlapped>>

\* Mutant: generateAnswer goes on with the raw question.
RewriteFailFallsBack(r) ==
  /\ chat[r].pc = "rewrite"
  /\ chat' = [chat EXCEPT ![r] = [@ EXCEPT !.pc = "embed", !.standalone = chat[r].question,
                                            !.fail = "rewrite", !.embq = 1]]
  /\ UNCHANGED <<batchVars, History, overlapped>>

\* the rewrite call rejects: the await throws before History.pop()
RewriteFail(r) ==
  /\ chat[r].pc = "rewrite"
  /\ ChatThrows(r, "rewrite")
  /\ UNCHANGED <<batchVars, History, overlapped>>

\* embeddings.embedQuery(standaloneQuestion) resolves; pineconeIndex.query
ChatEmbedOK(r) ==
  /\ chat[r].pc = "embed"
  /\ chat' = [chat EXCEPT ![r] = [@ EXCEPT !.pc = "query", !.idxq = 1]]
  /\ UNCHANGED <<batchVars, History, overlapped>>

ChatEmbedFail(r) ==
  /\ chat[r].pc = "embed"
  /\ ChatThrows(r, "embed")
  /\ UNCHANGED <<batchVars, History, overlapped>>

\* pineconeIndex.query resolves: the standalone question is pushed and the
\* answer call is made with History as contents
ChatQueryOK(r) ==
  /\ chat[r].pc = "query"
  /\ History' = Push(History, Turn("user", chat[r].standalone, r, "standalone"))
  /\ chat' = [chat EXCEPT ![r] = [@ EXCEPT !.pc = "llm", !.llm = 1]]
  /\ UNCHANGED <<batchVars, overlapped>>

ChatQueryFail(r) ==
  /\ chat[r].pc = "query"
  /\ ChatThrows(r, "query")
  /\ UNCHANGED <<batchVars, History, overlapped>>

\* the answer call resolves: the model turn is pushed and res.json({ answer })
AnswerOK(r) ==
  /\ chat[r].pc = "llm"
  /\ \E a \in AnswerTexts :
       /\ History' = Push(History, Turn("model", a, r, "answer"))
       /\ chat' = [chat EXCEPT ![r] = [@ EXCEPT !.pc = "done", !.status = 200, !.answer = a]]
  /\ UNCHANGED <<batchVars, overlapped>>

\* the answer call rejects, or reading its text throws
AnswerFail(r) ==
  /\ chat[r].pc = "llm"
  /\ ChatThrows(r, "llm")
  /\ UNCHANGED <<batchVars, History, overlapped>>

InitChat == variant = "part_001" /\ Started

NextChat ==
  \E r \in Reqs :
    \/ ChatHandle(r)
    \/ RewriteOK(r) \/ RewriteTextThrows(r) \/ RewriteFail(r)
    \/ ChatEmbedOK(r) \/ ChatEmbedFail(r)
    \/ ChatQueryOK(r) \/ ChatQueryFail(r)
    \/ AnswerOK(r) \/ AnswerFail(r)

SpecChat == InitChat /\ [][NextChat]_vars

\* ------------------------------------------------------------------------
\* Properties
\* ------------------------------------------------------------------------
Items(r) == body[r].questions.items
Url(r) == body[r].documents.url
ValidToken(h) == h = Header(<<"Bearer", TEAM_TOKEN>>)
\* the request got past the token check of its variant
PastToken(r) == pc[r] # "new" /\ (variant \in {"index", "part_002", "part_003"} => ValidToken(header[r]))
IsDedupVariant == variant \in {"part_002", "part_003"}
NoIngestWork(e) == e.dl = 0 /\ e.tmp = 0 /\ e.fromDocs = 0 /\ e.adds = 0
NoQuestionWork(e) == e.embq = 0 /\ e.idxq = 0 /\ e.llm = 0

\* C1, the step: when a request with a valid token arrives after another
\* request for the same URL has been answered and that one's ingestion
\* succeeded, it is served from the cache: it downloads nothing, creates no
\* file, embeds no chunk, writes nothing to the index, and the two requests
\* together made exactly one download and one fromDocuments pass.
C1_SecondRequestStep ==
  \A r1, r2 \in Reqs :
    ( /\ IsDedupVariant /\ r1 # r2
      /\ pc[r1] = "done" /\ ingest[r1] = "done"
      /\ pc[r2] = "new" /\ pc'[r2] # "new"
      /\ ValidToken(header'[r2])
      /\ body'[r2].documents = body[r1].documents
      /\ body'[r2].questions.kind = "array" )
    => /\ ingest'[r2] = "skipped"
       /\ NoIngestWork(effects'[r2])
       /\ effects'[r1].dl + effects'[r2].dl = 1
       /\ effects'[r1].fromDocs + effects'[r2].fromDocs = 1
       /\ indexed' = indexed /\ files' = files /\ processedDocs' = processedDocs

\* C1, afterwards: a request served from the cache never does ingestion work
\* and is answered 200 with one answer per question.
C1_SkippedStaysIdle ==
  \A r \in Reqs :
    (IsDedupVariant /\ ingest[r] = "skipped")
    => /\ NoIngestWork(effects[r])
       /\ pc[r] = "done" => (status[r] = 200 /\ Len(answers[r]) = Len(Items(r)))

\* C1: in the dedup variants two requests for the same URL handled one after
\* the other, the first ingestion succeeding, make exactly one
\* download/embedding/upsert pass; the second does none and still answers.
C1_IdempotentSequential == [][C1_SecondRequestStep]_vars /\ []C1_SkippedStaysIdle

C1_Witness ==
  \E r1, r2 \in Reqs :
    /\ IsDedupVariant /\ r1 # r2 /\ Url(r1) = Url(r2)
    /\ pc[r1] = "done" /\ ingest[r1] = "done" /\ status[r1] = 200
    /\ pc[r2] = "done" /\ ingest[r2] = "skipped" /\ status[r2] = 200
    /\ Len(answers[r2]) = 1 /\ NoIngestWork(effects[r2])

\* C2 (as claimed): in the dedup variants every hash is indexed at most once,
\* under any interleaving of the requests.
C2_IndexedAtMostOnce ==
  IsDedupVariant => \A h \in DOMAIN indexed : indexed[h] <= 1

\* C3: no query embedding and no index query of a request is issued before
\* its ingestion completed or was skipped on a cache hit, and a skipped
\* ingestion means an ingestion of the same URL completed earlier.
C3_IngestBeforeRetrieval ==
  \A r \in Reqs :
    /\ ~NoQuestionWork(effects[r]) => ingest[r] \in {"done", "skipped"}
    /\ ingest[r] = "skipped" =>
         \E s \in Reqs \ {r} :
           ingest[s] = "done" /\ Url(s) = Url(r) /\ effects[s].fromDocs = 1

C3_Witness ==
  \E r \in Reqs : ingest[r] = "skipped" /\ effects[r].idxq > 0 /\ effects[r].embq > 0

\* C4: in the dedup variants a request whose ingestion succeeded or was
\* skipped is answered 200 with one entry per question; the entry of a
\* question whose embedding, retrieval or LLM call failed is the fixed
\* sentence, and every other entry is the trimmed LLM text of its question.
C4_AnswerIsolation ==
  \A r \in Reqs :
    (IsDedupVariant /\ ingest[r] \in {"done", "skipped"} /\ pc[r] = "done")
    => /\ status[r] = 200
       /\ Len(answers[r]) = Len(Items(r))
       /\ \A i \in 1..Len(Items(r)) :
            answers[r][i] = IF tasks[r][i].fail # "none" THEN Fallback
                            ELSE Trim(tasks[r][i].out)

C4_Witness ==
  \E r \in Reqs :
    /\ IsDedupVariant /\ pc[r] = "done" /\ status[r] = 200 /\ Len(answers[r]) = 2
    /\ tasks[r][1].fail = "llm" /\ answers[r][1] = Fallback
    /\ tasks[r][2].fail = "none" /\ answers[r][2] = <<"a">>

\* C5: in the dedup variants answers[i] is the value answerQuestion returned
\* for questions[i], whatever the order in which the questions completed,
\* and there are as many answers as questions.
C5_AnswersByPosition ==
  \A r \in Reqs :
    (IsDedupVariant /\ pc[r] = "done" /\ status[r] = 200)
    => /\ Len(answers[r]) = Len(Items(r))
       /\ \A i \in 1..Len(Items(r)) :
            tasks[r][i].q = Items(r)[i] /\ answers[r][i] = tasks[r][i].val

\* two questions were in flight together and the second completed first,
\* with a different answer
C5_Witness ==
  \E r \in Reqs :
    /\ IsDedupVariant /\ pc[r] = "done" /\ status[r] = 200 /\ Len(answers[r]) = 2
    /\ tasks[r][2].rank = 1 /\ tasks[r][1].rank = 2
    /\ answers[r][1] # answers[r][2]

\* C6: queryWithRetry with the default bound of 2 never issues more than 2
\* index queries for a question; when two attempts in a row reject it has
\* issued exactly 2 and rethrows the error of the second attempt.
C6_RetryBound ==
  \A r \in Reqs : \A i \in DOMAIN tasks[r] :
    IsDedupVariant =>
      /\ tasks[r][i].calls <= 2
      /\ tasks[r][i].qfails = 2 =>
           /\ tasks[r][i].calls = 2
           /\ tasks[r][i].thrown = 2
           /\ tasks[r][i].pc = "done" /\ tasks[r][i].fail = "retrieval"

C6_Witness ==
  \E r \in Reqs : \E i \in DOMAIN tasks[r] :
    IsDedupVariant /\ tasks[r][i].qfails = 2 /\ tasks[r][i].thrown = 2 /\ tasks[r][i].calls = 2

\* C7: in the variants that check the token, a request whose Authorization
\* header is missing or is not exactly `Bearer <token>` is answered 401 and
\* has no other effect: its body is not examined, nothing is downloaded,
\* written, embedded, indexed, queried or asked of the LLM, and it adds
\* nothing to the dedup cache.
C7_AuthGate ==
  \A r \in Reqs :
    ( /\ variant \in {"index", "part_002", "part_003"}
      /\ pc[r] # "new" /\ ~ValidToken(header[r]) )
    => /\ status[r] = 401 /\ pc[r] = "done"
       /\ body[r] = NoBody
       /\ effects[r] = NoEffects
       /\ ingest[r] = "none" /\ tasks[r] = <<>> /\ answers[r] = <<>>
       /\ <<"temp", r>> \notin files

C7_Witness ==
  \E r \in Reqs :
    /\ variant \in {"index", "part_002", "part_003"}
    /\ header[r] = Header(<<"Bearer", "bad">>) /\ status[r] = 401
    /\ \E s \in Reqs : header[s] = NoHeader /\ status[s] = 401

\* C8 (as claimed): a batch request past the token check whose body has no
\* documents value or whose questions is not an array is answered 400 and
\* has no side effect.
C8_InvalidBodyRejected ==
  \A r \in Reqs :
    (PastToken(r) /\ (~body[r].documents.present \/ body[r].questions.kind # "array"))
    => /\ status[r] = 400
       /\ effects[r] = NoEffects /\ ingest[r] = "none" /\ tasks[r] = <<>>

\* C9: in part_003 a URL whose extension is neither .pdf nor .docx is
\* rejected with the unsupported-format error before any download starts
\* and before any temp file is created; the request fails and its hash is
\* not in the dedup cache.
C9_FormatGate ==
  \A r \in Reqs :
    ( /\ variant = "part_003" /\ PastToken(r)
      /\ body[r].documents.present /\ body[r].questions.kind = "array"
      /\ ToLowerCase(Url(r).ext) \notin {".pdf", ".docx"} )
    => /\ status[r] = 500 /\ failStep[r] = "format" /\ ingest[r] = "failed"
       /\ effects[r] = NoEffects
       /\ <<"temp", r>> \notin files
       /\ <<"sha256", Url(r).name, Url(r).ext>> \notin processedDocs

C9_Witness ==
  \E r \in Reqs :
    /\ variant = "part_003" /\ Url(r).ext = ".txt" /\ status[r] = 500
    /\ failStep[r] = "format" /\ effects[r].dl = 0
    /\ \E s \in Reqs : Url(s).ext = ".DOCX" /\ effects[s].dl = 1

\* C10 (as claimed, for the variants that download with axios): when a step
\* of ingestion fails the request is answered 500, none of its questions is
\* embedded, retrieved or sent to the LLM, and no answers are returned.
C10_IngestFailureIs500 ==
  \A r \in Reqs :
    (variant \in {"index", "part_002", "part_003"} /\ ingest[r] = "failed")
    => status[r] = 500 /\ NoQuestionWork(effects[r]) /\ answers[r] = <<>>

\* C11 (as claimed, for the variants that name the file after the request):
\* once a request's ingestion has ended, by success or by a failure after
\* createWriteStream made the temp file, and the request has been answered,
\* its temp file is no longer on disk.
C11_TempFileRemoved ==
  \A r \in Reqs :
    ( /\ variant \in {"index", "part_002", "part_003"}
      /\ pc[r] = "done" /\ ingest[r] \in {"done", "failed"}
      /\ effects[r].tmp = 1 )
    => <<"temp", r>> \notin files

\* the ingestion of r has created its temp file and has not yet ended
WritesTemp(r) == pc[r] \in {"pipe", "load", "split", "upsert"}
TempPathOf(r) == IF variant = "part_000" THEN <<"temp.pdf">> ELSE <<"temp", r>>

\* C13 (as claimed): two ingestions in flight together, each with its temp
\* file created, hold different paths.
C13_DistinctTempPaths ==
  \A r1, r2 \in Reqs :
    (r1 # r2 /\ WritesTemp(r1) /\ WritesTemp(r2))
    => /\ TempPathOf(r1) # TempPathOf(r2)
       /\ TempPathOf(r1) \in files /\ TempPathOf(r2) \in files

\* C14 (as claimed): when the HTTP request fails, or the response body or
\* the write stream emits an error, the download promise rejects: the
\* request is answered 500 and no fromDocuments pass was started for it.
C14_StreamErrorAborts ==
  \A r \in Reqs :
    failStep[r] \in {"download", "stream"}
    => pc[r] = "done" /\ status[r] = 500 /\ effects[r].fromDocs = 0

\* C15 (as claimed): every entry of the answers array of a 200 response is
\* a non-empty string, whatever text the LLM returned and whichever
\* questions failed.
C15_AnswersNonEmpty ==
  \A r \in Reqs :
    ( /\ variant \in {"index", "part_002", "part_003"}
      /\ pc[r] = "done" /\ status[r] = 200 /\ ingest[r] \in {"done", "skipped"} )
    => \A i \in DOMAIN answers[r] : answers[r][i] # <<>>

\* C16, the step: the dedup cache never loses a hash; a hash enters it only
\* in the step in which the ingestion of a request for that URL completes its
\* last step (the file was written and fromDocuments resolved, nothing
\* failed); a step in which an ingestion fails leaves the cache as it was;
\* and a request skips ingestion only when the hash of its URL is in the
\* cache at that moment.
C16_CacheStep ==
  /\ processedDocs \subseteq processedDocs'
  /\ \A h \in processedDocs' \ processedDocs :
       \E r \in Reqs :
         /\ pc[r] = "upsert" /\ ingest[r] = "running" /\ ingest'[r] = "done"
         /\ h = <<"sha256", Url(r).name, Url(r).ext>>
         /\ effects[r].tmp = 1 /\ effects[r].fromDocs = 1 /\ failStep'[r] = "none"
  /\ \A r \in Reqs :
       (ingest[r] # "failed" /\ ingest'[r] = "failed") => processedDocs' = processedDocs
  /\ \A r \in Reqs :
       (ingest[r] = "none" /\ ingest'[r] = "skipped")
       => <<"sha256", body'[r].documents.url.name, body'[r].documents.url.ext>> \in processedDocs

\* C16, the state: every hash in the cache is the hash of the URL of a
\* request whose ingestion completed.
C16_CacheHoldsCompleted ==
  \A h \in processedDocs :
    \E r \in Reqs : ingest[r] = "done" /\ h = <<"sha256", Url(r).name, Url(r).ext>>

\* C16: the dedup cache only grows and only records completed ingestions.
C16_CacheGrowsOnCompletion == [][C16_CacheStep]_vars /\ []C16_CacheHoldsCompleted

\* an ingestion of a URL failed after its download started, the cache was
\* left without its hash, and another request for the same URL ingested it
\* again and put the hash in the cache
C16_Witness ==
  \E r1, r2 \in Reqs :
    /\ IsDedupVariant /\ r1 # r2 /\ body[r1].documents = body[r2].documents
    /\ ingest[r1] = "failed" /\ failStep[r1] \in {"download", "stream", "parse", "chunk", "upsert"}
    /\ ingest[r2] = "done" /\ effects[r2].fromDocs = 1
    /\ processedDocs = {<<"sha256", Url(r2).name, Url(r2).ext>>}

\* C17: queryWithRetry (default bound 2), for every question of the dedup
\* variants.  While attempt k is awaited, k queries were issued, k - 1 of
\* them rejected and k - 1 timers were started: none before the first
\* attempt, one between a rejected attempt and the next.  Once an attempt
\* resolved, the counts stay at that attempt: no further query, no further
\* timer.  When the last attempt rejects, no timer follows it and the error
\* rethrown is that attempt's.
C17_RetrySchedule ==
  \A r \in Reqs : \A i \in DOMAIN tasks[r] :
    LET t == tasks[r][i] IN
    IsDedupVariant =>
      /\ t.pc = "embed" => t.calls = 0 /\ t.waits = 0
      /\ t.pc = "query" =>
           t.calls = t.attempt /\ t.qfails = t.attempt - 1 /\ t.waits = t.attempt - 1
      /\ t.pc = "backoff" =>
           t.attempt < 2 /\ t.calls = t.attempt /\ t.qfails = t.attempt /\ t.waits = t.attempt
      /\ (t.pc = "llm" \/ (t.pc = "done" /\ t.fail \in {"none", "llm"})) =>
           /\ t.calls = t.attempt /\ t.qfails = t.attempt - 1 /\ t.waits = t.attempt - 1
           /\ t.thrown = 0
      /\ (t.pc = "done" /\ t.fail = "retrieval") =>
           /\ t.attempt = 2 /\ t.calls = 2 /\ t.qfails = 2
           /\ t.waits = 1 /\ t.thrown = 2
      /\ (t.pc = "done" /\ t.fail = "embed") => t.calls = 0 /\ t.waits = 0

\* one question was answered by the second attempt after one timer, and a
\* question failed on both attempts with one timer between them
C17_Witness ==
  /\ IsDedupVariant
  /\ \E r \in Reqs : \E i \in DOMAIN tasks[r] :
       /\ tasks[r][i].pc = "done" /\ tasks[r][i].fail = "none"
       /\ tasks[r][i].calls = 2 /\ tasks[r][i].qfails = 1 /\ tasks[r][i].waits = 1
  /\ \E r \in Reqs : \E i \in DOMAIN tasks[r] :
       /\ tasks[r][i].pc = "done" /\ tasks[r][i].fail = "retrieval"
       /\ tasks[r][i].thrown = 2 /\ tasks[r][i].waits = 1

\* a transformQuery call of request r ends in this step
RewriteEnds(r) == chat[r].pc = "rewrite" /\ chat'[r].pc # "rewrite"
Quiet == \A r \in Reqs : chat[r].pc \in {"new", "done"}
Answered == {r \in Reqs : chat[r].status = 200}

\* C12 (as claimed): while no two chat requests have overlapped, the step
\* in which a transformQuery call ends, by returning the rewritten text or by
\* throwing, leaves History equal to what it was when the call began.
C12_TransformQueryRestores ==
  [][\A r \in Reqs :
       (~overlapped /\ RewriteEnds(r)) => History' = chat[r].before]_vars

\* C18: in the chat variant a request whose rewrite call failed (the call
\* rejected, or reading its text threw) is answered 500 with no answer, and
\* no query embedding, index query or answer call was made for it; it pushed
\* no standalone question and no model turn.
C18_RewriteFailurePropagates ==
  \A r \in Reqs :
    chat[r].fail \in {"rewrite", "text"}
    => /\ chat[r].pc = "done" /\ chat[r].status = 500 /\ chat[r].answer = <<>>
       /\ chat[r].embq = 0 /\ chat[r].idxq = 0 /\ chat[r].llm = 0
       /\ \A k \in DOMAIN History :
            History[k].by = r => History[k].kind = "speculative"

\* one request failed in the rewrite call and another was answered
C18_Witness ==
  \E r, s \in Reqs :
    /\ chat[r].fail = "rewrite" /\ chat[r].status = 500
    /\ chat[s].status = 200 /\ chat[s].embq = 1 /\ chat[s].llm = 1

\* C19 (as claimed): whenever a transformQuery call pops History, the turn
\* removed is the speculative turn that the same call pushed.
C19_PopRemovesOwnTurn ==
  [][\A r \in Reqs :
       (RewriteEnds(r) /\ Len(History') < Len(History))
       => /\ History[Len(History)].by = r
          /\ History[Len(History)].kind = "speculative"]_vars

\* C20 (as claimed): when the chat requests so far were handled one at a
\* time and none is in flight, History has two turns per answered request
\* and none for the others: turn 2k-1 is a user turn holding a standalone
\* question, turn 2k the model turn of the same request holding its answer.
C20_HistoryIsPairs ==
  (~overlapped /\ Quiet) =>
    /\ Len(History) = 2 * Cardinality(Answered)
    /\ \A k \in DOMAIN History :
         /\ History[k].by \in Answered
         /\ IF k % 2 = 1
            THEN /\ History[k].role = "user" /\ History[k].kind = "standalone"
                 /\ History[k].text = chat[History[k].by].standalone
            ELSE /\ History[k].role = "model" /\ History[k].kind = "answer"
                 /\ History[k].text = chat[History[k].by].answer
                 /\ History[k].by = History[k - 1].by

\* the response codes of the batch handlers
Responses == {401, 400, 200, 500}

\* a response, once sent, is neither replaced nor followed by another
C21_AtMostOneResponse ==
  \A r \in Reqs : status[r] # 0 => status'[r] = status[r] /\ pc'[r] = "done"

\* C21 (as claimed): every request that arrived is eventually answered with
\* one of 401, 400, 200, 500, provided every pending external call settles,
\* and no request is answered twice.
C21_ExactlyOneResponse ==
  /\ \A r \in Reqs : (pc[r] # "new") ~> (pc[r] = "done" /\ status[r] \in Responses)
  /\ [][C21_AtMostOneResponse]_vars

\* C22 (as claimed): in part_000 the answers object of a 200 response to a
\* request with a questions array has as many entries as the array has
\* questions, and for each question an entry keyed by it that holds the
\* answer produced for it.
C22_OneEntryPerQuestion ==
  \A r \in Reqs :
    ( /\ variant = "part_000" /\ pc[r] = "done" /\ status[r] = 200
      /\ body[r].questions.kind = "array" )
    => /\ Len(answers[r]) = Len(Items(r))
       /\ \A i \in DOMAIN Items(r) :
            \E k \in DOMAIN answers[r] :
              answers[r][k].key = Items(r)[i] /\ answers[r][k].value = tasks[r][i].val

====
